---------------------------- MODULE Spec2Model ----------------------------
(***************************************************************************)
(* Model of story_parser.py: the response validator that turns the raw     *)
(* text of the generation service into a Story dictionary.                 *)
(*                                                                         *)
(* Text is a sequence of characters.  A character is a one-character       *)
(* string; the backtick cannot be written inside a TLA+ string and is      *)
(* written TICK.  A decoded JSON value is a node                           *)
(*     [k |-> kind, s |-> characters, keys |-> member names,               *)
(*      kids |-> member values / array elements]                           *)
(* with k one of "str", "num", "bool", "null", "arr", "obj".  An object    *)
(* keeps its members in insertion order, as a Python dict does.            *)
(***************************************************************************)
EXTENDS Integers, Sequences, FiniteSets, TLC

VARIABLES
    pc,       \* position inside parse_and_save
    given,    \* how the raw text of this run was put together
    raw,      \* raw_response
    cleaned,  \* result of _clean_response
    story,    \* result of _parse_json
    error,    \* the exception that ended the call, NoError if none
    warned,   \* the slide-count warning was printed
    files,    \* the output directory: the files written, with their content
    calls,    \* number of the calls of parse_and_save made so far
    history,  \* the texts and outcomes of the calls a caller has seen end
    team_keys,\* main: the teams chosen, in the order they are run
    cur_team, \* main: the team_key of the current pipeline run
    stage,    \* run_pipeline: the stage being executed
    results,  \* main: the result summaries collected so far
    log,      \* the stage invocations of this process, in order
    handed,   \* the story passed to render_html
    status,   \* main: running, or how it ended
    event,    \* fetch_last_match: the event the API returned
    last_match \* the record _extract_match_data built from it

callvars == <<calls, history>>
orch == <<team_keys, cur_team, stage, results, log, handed, status, event, last_match>>

vars == <<pc, given, raw, cleaned, story, error, warned, files, calls, history,
          team_keys, cur_team, stage, results, log, handed, status, event, last_match>>

-----------------------------------------------------------------------------
(* Characters and words *)

TICK == "tick"
DQ == "\""
NL == "\n"
SP == " "

WhiteSpace == {SP, NL}
Digits == {"0", "1", "2", "3", "4", "5", "6", "7", "8", "9"}

Min(S) == CHOOSE m \in S : \A n \in S : m <= n
Max(S) == CHOOSE m \in S : \A n \in S : m >= n

FENCE == <<TICK, TICK, TICK>>
w_json == <<"j", "s", "o", "n">>
w_null == <<"n", "u", "l", "l">>
w_true == <<"t", "r", "u", "e">>
w_false == <<"f", "a", "l", "s", "e">>

k_team == <<"t", "e", "a", "m">>
k_match == <<"m", "a", "t", "c", "h">>
k_date == <<"d", "a", "t", "e">>
k_result == <<"r", "e", "s", "u", "l", "t">>
k_slides == <<"s", "l", "i", "d", "e", "s">>
k_type == <<"t", "y", "p", "e">>
k_text == <<"t", "e", "x", "t">>
k_subtext == <<"s", "u", "b", "t", "e", "x", "t">>
k_stat_label == <<"s", "t", "a", "t", "_", "l", "a", "b", "e", "l">>
k_stat_value == <<"s", "t", "a", "t", "_", "v", "a", "l", "u", "e">>
k_narrative == <<"n", "a", "r", "r", "a", "t", "i", "v", "e">>

t_headline == <<"h", "e", "a", "d", "l", "i", "n", "e">>
t_stat == <<"s", "t", "a", "t">>
t_cta == <<"c", "t", "a">>

-----------------------------------------------------------------------------
(* Decoded values *)

Node(k, s, keys, kids) == [k |-> k, s |-> s, keys |-> keys, kids |-> kids]
Str(s) == Node("str", s, <<>>, <<>>)
Num(s) == Node("num", s, <<>>, <<>>)
Bool(s) == Node("bool", s, <<>>, <<>>)
None == Node("null", <<>>, <<>>, <<>>)
Arr(kids) == Node("arr", <<>>, <<>>, kids)
Obj(keys, kids) == Node("obj", <<>>, keys, kids)

\* key in d
Has(d, key) == \E i \in 1..Len(d.keys) : d.keys[i] = key

\* d.get(key): the value, None when the key is absent
Get(d, key) ==
    IF Has(d, key)
    THEN d.kids[CHOOSE i \in 1..Len(d.keys) : d.keys[i] = key]
    ELSE None

\* d[key] = val: a repeated name keeps its first position, takes the last value
Put(d, key, val) ==
    IF Has(d, key)
    THEN LET i == CHOOSE j \in 1..Len(d.keys) : d.keys[j] = key
         IN Obj(d.keys, [d.kids EXCEPT ![i] = val])
    ELSE Obj(Append(d.keys, key), Append(d.kids, val))

\* type(v).__name__
TypeName(v) ==
    CASE v.k = "str" -> "str"
      [] v.k = "num" -> "int"
      [] v.k = "bool" -> "bool"
      [] v.k = "null" -> "NoneType"
      [] v.k = "arr" -> "list"
      [] v.k = "obj" -> "dict"

-----------------------------------------------------------------------------
(* Exceptions *)

Exc(exc, tag, text, msg, at, name, index, value, keys) ==
    [exc |-> exc, tag |-> tag, text |-> text, msg |-> msg, at |-> at,
     name |-> name, index |-> index, value |-> value, keys |-> keys]

NoError == Exc("none", "none", <<>>, "", 0, <<>>, 0, None, <<>>)

\* s[:n]
Prefix(s, n) == SubSeq(s, 1, IF Len(s) < n THEN Len(s) ELSE n)

RawExcerptLen == 200
CleanedExcerptLen == 300

NoJsonFound(rawText) ==
    Exc("ValueError", "NoJsonFound", Prefix(rawText, RawExcerptLen),
        "", 0, <<>>, 0, None, <<>>)

MalformedJson(msg, at, cleanedText) ==
    Exc("ValueError", "MalformedJson", Prefix(cleanedText, CleanedExcerptLen),
        msg, at, <<>>, 0, None, <<>>)

MissingField(field, present) ==
    Exc("ValueError", "MissingField", <<>>, "", 0, field, 0, None, present)

WrongType(actual) ==
    Exc("ValueError", "WrongType", <<>>, actual, 0, k_slides, 0, None, <<>>)

UnknownSlideType(i, slide_type) ==
    Exc("ValueError", "UnknownSlideType", <<>>, "", 0, <<>>, i, slide_type, <<>>)

MissingSlideField(i, slide_type, field, present) ==
    Exc("ValueError", "MissingSlideField", <<>>, "", 0, field, i, slide_type,
        present)

\* slide.get on a value that is not a dict
AttributeError(i, slide) ==
    Exc("AttributeError", "untyped", <<>>, TypeName(slide), 0, <<>>, i, None, <<>>)

\* slide_type not in required_fields, for a slide_type that cannot be hashed
TypeError(i, slide_type) ==
    Exc("TypeError", "untyped", <<>>, TypeName(slide_type), 0, <<>>, i, None, <<>>)

-----------------------------------------------------------------------------
(* _clean_response *)

\* str.strip()
strip(s) ==
    LET ink == {i \in 1..Len(s) : s[i] \notin WhiteSpace}
    IN IF ink = {} THEN <<>> ELSE SubSeq(s, Min(ink), Max(ink))

HasWordAt(s, i, w) ==
    /\ i >= 1
    /\ i + Len(w) - 1 <= Len(s)
    /\ SubSeq(s, i, i + Len(w) - 1) = w

\* the first index from i on that holds no whitespace, Len(s) + 1 if none
SkipSpace(s, i) ==
    LET ink == {k \in i..Len(s) : s[k] \notin WhiteSpace}
    IN IF ink = {} THEN Len(s) + 1 ELSE Min(ink)

\* where a match of ```(?:json)?\s* that starts at i ends (exclusive)
OpenFenceEnd(s, i) ==
    LET j == i + 3
        k == IF HasWordAt(s, j, w_json) THEN j + 4 ELSE j
    IN SkipSpace(s, k)

\* re.sub(r'```(?:json)?\s*', '', s), from index i on
RECURSIVE SubOpenFence(_, _)
SubOpenFence(s, i) ==
    LET at == {k \in i..Len(s) : HasWordAt(s, k, FENCE)}
    IN IF at = {}
       THEN SubSeq(s, i, Len(s))
       ELSE LET k == Min(at)
            IN SubSeq(s, i, k - 1) \o SubOpenFence(s, OpenFenceEnd(s, k))

\* where a match of ```\s*$ (MULTILINE) that starts at i ends (exclusive),
\* 0 if there is no match at i
CloseFenceEnd(s, i) ==
    LET j == i + 3
        q == SkipSpace(s, j)
        nls == {p \in j..(q - 1) : s[p] = NL}
    IN IF q > Len(s) THEN q
       ELSE IF nls = {} THEN 0
       ELSE Max(nls)

\* re.sub(r'```\s*$', '', s, flags=re.MULTILINE), from index i on
RECURSIVE SubCloseFence(_, _)
SubCloseFence(s, i) ==
    LET at == {k \in i..Len(s) : HasWordAt(s, k, FENCE) /\ CloseFenceEnd(s, k) # 0}
    IN IF at = {}
       THEN SubSeq(s, i, Len(s))
       ELSE LET k == Min(at)
            IN SubSeq(s, i, k - 1) \o SubCloseFence(s, CloseFenceEnd(s, k))

\* the text after lines 57-67: strip, then both substitutions
StripFences(rawText) == SubCloseFence(SubOpenFence(strip(rawText), 1), 1)

\* str.find(c) and str.rfind(c), as 1-based indexes; 0 stands for -1
find(s, c) ==
    LET at == {i \in 1..Len(s) : s[i] = c}
    IN IF at = {} THEN 0 ELSE Min(at)

rfind(s, c) ==
    LET at == {i \in 1..Len(s) : s[i] = c}
    IN IF at = {} THEN 0 ELSE Max(at)

\* _clean_response with the excerpt taken from the stripped text
clean_response_ExcerptOfStripped(rawText) ==
    LET stripped == StripFences(rawText)
        brace_start == find(stripped, "{")
        brace_end == rfind(stripped, "}")
    IN IF brace_start = 0 \/ brace_end = 0
       THEN [err |-> NoJsonFound(stripped), out |-> <<>>]
       ELSE [err |-> NoError,
             out |-> strip(SubSeq(stripped, brace_start, brace_end))]

\* _clean_response without the cut from the first "{" to the last "}"
clean_response_NoSlice(rawText) ==
    LET stripped == StripFences(rawText)
        brace_start == find(stripped, "{")
        brace_end == rfind(stripped, "}")
    IN IF brace_start = 0 \/ brace_end = 0
       THEN [err |-> NoJsonFound(rawText), out |-> <<>>]
       ELSE [err |-> NoError, out |-> strip(stripped)]

\* _clean_response taking a last "}" before the first "{" for no JSON at all
clean_response_ReversedIsMissing(rawText) ==
    LET stripped == StripFences(rawText)
        brace_start == find(stripped, "{")
        brace_end == rfind(stripped, "}")
    IN IF brace_start = 0 \/ brace_end = 0 \/ brace_end < brace_start
       THEN [err |-> NoJsonFound(rawText), out |-> <<>>]
       ELSE [err |-> NoError,
             out |-> strip(SubSeq(stripped, brace_start, brace_end))]

\* the outcome of _clean_response: the exception raised, or the text returned
clean_response(rawText) ==
    LET stripped == StripFences(rawText)
        brace_start == find(stripped, "{")
        brace_end == rfind(stripped, "}")
    IN IF brace_start = 0 \/ brace_end = 0
       THEN [err |-> NoJsonFound(rawText), out |-> <<>>]
       ELSE [err |-> NoError,
             out |-> strip(SubSeq(stripped, brace_start, brace_end))]

-----------------------------------------------------------------------------
(* _parse_json: json.loads on the cleaned text.  A scan result is           *)
(* [ok, val, pos, msg]: on success the value and the index after it, on     *)
(* failure the decoder's message and the index it points at.                *)

Scanned(val, pos) == [ok |-> TRUE, val |-> val, pos |-> pos, msg |-> ""]
ScanError(msg, pos) == [ok |-> FALSE, val |-> None, pos |-> pos, msg |-> msg]

CharAt(s, i) == IF i >= 1 /\ i <= Len(s) THEN s[i] ELSE ""

\* a string literal whose opening quote is at i
ScanString(s, i) ==
    LET quotes == {k \in (i + 1)..Len(s) : s[k] = DQ}
    IN IF quotes = {}
       THEN ScanError("Unterminated string starting at", i)
       ELSE LET close == Min(quotes)
                ctl == {k \in (i + 1)..(close - 1) : s[k] = NL}
            IN IF ctl # {}
               THEN ScanError("Invalid control character at", Min(ctl))
               ELSE Scanned(Str(SubSeq(s, i + 1, close - 1)), close + 1)

\* an integer literal that starts at i
ScanNumber(s, i) ==
    LET stop == {k \in i..Len(s) : s[k] \notin Digits}
        fin == IF s[i] = "0" THEN i + 1
               ELSE IF stop = {} THEN Len(s) + 1 ELSE Min(stop)
    IN Scanned(Num(SubSeq(s, i, fin - 1)), fin)

RECURSIVE ScanValue(_, _)
RECURSIVE ScanMembers(_, _, _)
RECURSIVE ScanElements(_, _, _)

\* the members of an object, the next name expected at i
ScanMembers(s, i, acc) ==
    IF CharAt(s, i) # DQ
    THEN ScanError("Expecting property name enclosed in double quotes", i)
    ELSE LET name == ScanString(s, i)
         IN IF ~name.ok THEN name
            ELSE LET c == SkipSpace(s, name.pos)
                 IN IF CharAt(s, c) # ":"
                    THEN ScanError("Expecting ':' delimiter", c)
                    ELSE LET v == ScanValue(s, SkipSpace(s, c + 1))
                         IN IF ~v.ok THEN v
                            ELSE LET acc2 == Put(acc, name.val.s, v.val)
                                     e == SkipSpace(s, v.pos)
                                 IN IF CharAt(s, e) = "}"
                                    THEN Scanned(acc2, e + 1)
                                    ELSE IF CharAt(s, e) # ","
                                    THEN ScanError("Expecting ',' delimiter", e)
                                    ELSE ScanMembers(s, SkipSpace(s, e + 1), acc2)

\* the elements of an array, the next value expected at i
ScanElements(s, i, acc) ==
    LET v == ScanValue(s, i)
    IN IF ~v.ok THEN v
       ELSE LET acc2 == Append(acc, v.val)
                e == SkipSpace(s, v.pos)
            IN IF CharAt(s, e) = "]"
               THEN Scanned(Arr(acc2), e + 1)
               ELSE IF CharAt(s, e) # ","
               THEN ScanError("Expecting ',' delimiter", e)
               ELSE ScanElements(s, SkipSpace(s, e + 1), acc2)

\* the value that starts at i
ScanValue(s, i) ==
    LET c == CharAt(s, i)
    IN CASE c = DQ -> ScanString(s, i)
         [] c = "{" ->
              LET j == SkipSpace(s, i + 1)
              IN IF CharAt(s, j) = "}"
                 THEN Scanned(Obj(<<>>, <<>>), j + 1)
                 ELSE ScanMembers(s, j, Obj(<<>>, <<>>))
         [] c = "[" ->
              LET j == SkipSpace(s, i + 1)
              IN IF CharAt(s, j) = "]"
                 THEN Scanned(Arr(<<>>), j + 1)
                 ELSE ScanElements(s, j, <<>>)
         [] c = "n" /\ HasWordAt(s, i, w_null) -> Scanned(None, i + 4)
         [] c = "t" /\ HasWordAt(s, i, w_true) -> Scanned(Bool(w_true), i + 4)
         [] c = "f" /\ HasWordAt(s, i, w_false) -> Scanned(Bool(w_false), i + 5)
         [] c \in Digits -> ScanNumber(s, i)
         [] OTHER -> ScanError("Expecting value", i)

\* json.loads(s): leading whitespace, one value, trailing whitespace
loads(s) ==
    LET v == ScanValue(s, SkipSpace(s, 1))
    IN IF ~v.ok THEN v
       ELSE LET e == SkipSpace(s, v.pos)
            IN IF e <= Len(s) THEN ScanError("Extra data", e) ELSE v

\* _parse_json with the excerpt cut at the length used for the raw text
parse_json_ShortExcerpt(cleanedText) ==
    LET r == loads(cleanedText)
    IN IF r.ok
       THEN [err |-> NoError, out |-> r.val]
       ELSE [err |-> MalformedJson(r.msg, r.pos - 1,
                                   Prefix(cleanedText, RawExcerptLen)),
             out |-> None]

\* the outcome of _parse_json: the exception raised, or the value returned;
\* the decoder reports 0-based positions
parse_json(cleanedText) ==
    LET r == loads(cleanedText)
    IN IF r.ok
       THEN [err |-> NoError, out |-> r.val]
       ELSE [err |-> MalformedJson(r.msg, r.pos - 1, cleanedText), out |-> None]

-----------------------------------------------------------------------------
(* _validate_schema *)

required_top_level == <<k_team, k_match, k_date, k_result, k_slides>>

ExpectedSlideCount == 4

KnownTypes == {t_headline, t_stat, t_cta}

required_fields(t) ==
    CASE t = t_headline -> <<k_type, k_text, k_subtext>>
      [] t = t_stat -> <<k_type, k_stat_label, k_stat_value, k_narrative>>
      [] t = t_cta -> <<k_type, k_text, k_subtext>>

\* slide_type in required_fields, for a hashable slide_type
IsKnownType(v) == v.k = "str" /\ v.s \in KnownTypes

\* lists and dicts cannot be hashed
Unhashable(v) == v.k \in {"arr", "obj"}

\* the names of `required` that `d` lacks, as indexes into `required`
MissingIn(d, required) == {j \in 1..Len(required) : ~Has(d, required[j])}

\* the loop body without the inner loop over the required fields
CheckSlide_SkipsFields(slide, i) ==
    IF slide.k # "obj" THEN AttributeError(i, slide)
    ELSE LET slide_type == Get(slide, k_type)
         IN IF Unhashable(slide_type) THEN TypeError(i, slide_type)
            ELSE IF ~IsKnownType(slide_type)
            THEN UnknownSlideType(i, slide_type)
            ELSE NoError

\* the loop body treating an absent type as a missing field
CheckSlide_TypeAsField(slide, i) ==
    IF slide.k # "obj" THEN AttributeError(i, slide)
    ELSE IF ~Has(slide, k_type)
    THEN MissingSlideField(i, None, k_type, slide.keys)
    ELSE LET slide_type == Get(slide, k_type)
         IN IF Unhashable(slide_type) THEN TypeError(i, slide_type)
            ELSE IF ~IsKnownType(slide_type)
            THEN UnknownSlideType(i, slide_type)
            ELSE LET req == required_fields(slide_type.s)
                     miss == MissingIn(slide, req)
                 IN IF miss # {}
                    THEN MissingSlideField(i, slide_type, req[Min(miss)],
                                           slide.keys)
                    ELSE NoError

\* the loop body reporting the last missing field instead of the first
CheckSlide_LastMissing(slide, i) ==
    IF slide.k # "obj" THEN AttributeError(i, slide)
    ELSE LET slide_type == Get(slide, k_type)
         IN IF Unhashable(slide_type) THEN TypeError(i, slide_type)
            ELSE IF ~IsKnownType(slide_type)
            THEN UnknownSlideType(i, slide_type)
            ELSE LET req == required_fields(slide_type.s)
                     miss == MissingIn(slide, req)
                 IN IF miss # {}
                    THEN MissingSlideField(i, slide_type, req[Max(miss)],
                                           slide.keys)
                    ELSE NoError

\* one pass of the loop body of lines 148-163 for slide number i (1-based)
CheckSlide(slide, i) ==
    IF slide.k # "obj" THEN AttributeError(i, slide)
    ELSE LET slide_type == Get(slide, k_type)
         IN IF Unhashable(slide_type) THEN TypeError(i, slide_type)
            ELSE IF ~IsKnownType(slide_type)
            THEN UnknownSlideType(i, slide_type)
            ELSE LET req == required_fields(slide_type.s)
                     miss == MissingIn(slide, req)
                 IN IF miss # {}
                    THEN MissingSlideField(i, slide_type, req[Min(miss)],
                                           slide.keys)
                    ELSE NoError

\* the loop of lines 148-163 from slide number i on
RECURSIVE CheckSlides(_, _)
CheckSlides(slides, i) ==
    IF i > Len(slides) THEN NoError
    ELSE LET r == CheckSlide(slides[i], i)
         IN IF r # NoError THEN r ELSE CheckSlides(slides, i + 1)

\* _validate_schema reporting the last missing key instead of the first
validate_schema_LastMissing(d) ==
    LET miss == MissingIn(d, required_top_level)
    IN IF miss # {}
       THEN [err |-> MissingField(required_top_level[Max(miss)], d.keys),
             warn |-> FALSE]
       ELSE LET slides == Get(d, k_slides)
            IN IF slides.k # "arr"
               THEN [err |-> WrongType(TypeName(slides)), warn |-> FALSE]
               ELSE [err |-> CheckSlides(slides.kids, 1),
                     warn |-> Len(slides.kids) # ExpectedSlideCount]

\* _validate_schema with a type test that lets a mapping through
validate_schema_MappingAccepted(d) ==
    LET miss == MissingIn(d, required_top_level)
    IN IF miss # {}
       THEN [err |-> MissingField(required_top_level[Min(miss)], d.keys),
             warn |-> FALSE]
       ELSE LET slides == Get(d, k_slides)
            IN IF slides.k \notin {"arr", "obj"}
               THEN [err |-> WrongType(TypeName(slides)), warn |-> FALSE]
               ELSE [err |-> CheckSlides(slides.kids, 1),
                     warn |-> Len(slides.kids) # ExpectedSlideCount]

\* _validate_schema with a slide count that must be met
validate_schema_CountFatal(d) ==
    LET miss == MissingIn(d, required_top_level)
    IN IF miss # {}
       THEN [err |-> MissingField(required_top_level[Min(miss)], d.keys),
             warn |-> FALSE]
       ELSE LET slides == Get(d, k_slides)
            IN IF slides.k # "arr"
               THEN [err |-> WrongType(TypeName(slides)), warn |-> FALSE]
               ELSE IF Len(slides.kids) # ExpectedSlideCount
               THEN [err |-> WrongType("list"), warn |-> TRUE]
               ELSE [err |-> CheckSlides(slides.kids, 1), warn |-> FALSE]

\* the outcome of _validate_schema: the exception raised (NoError if none)
\* and whether the slide-count warning was printed on the way
validate_schema(d) ==
    LET miss == MissingIn(d, required_top_level)
    IN IF miss # {}
       THEN [err |-> MissingField(required_top_level[Min(miss)], d.keys),
             warn |-> FALSE]
       ELSE LET slides == Get(d, k_slides)
            IN IF slides.k # "arr"
               THEN [err |-> WrongType(TypeName(slides)), warn |-> FALSE]
               ELSE [err |-> CheckSlides(slides.kids, 1),
                     warn |-> Len(slides.kids) # ExpectedSlideCount]

-----------------------------------------------------------------------------
(* Raw texts handed to parse_and_save.  A text is put together from a       *)
(* decoded value, written out as JSON, possibly damaged, possibly fenced,   *)
(* with prose before and after; or it is free text made of a few chunks.    *)

MaxSlides == 2     \* longest slide list among the schema samples
MaxChunks == 3     \* most chunks in a free text
MaxCount == 5      \* longest list of well-formed slides

RECURSIVE Join(_, _)
Join(parts, sep) ==
    IF parts = <<>> THEN <<>>
    ELSE IF Len(parts) = 1 THEN parts[1]
    ELSE parts[1] \o sep \o Join(Tail(parts), sep)

\* the value written out as compact JSON text
RECURSIVE Ser(_)
Ser(v) ==
    CASE v.k = "str" -> <<DQ>> \o v.s \o <<DQ>>
      [] v.k = "num" -> v.s
      [] v.k = "bool" -> v.s
      [] v.k = "null" -> w_null
      [] v.k = "arr" ->
           <<"[">> \o Join([i \in 1..Len(v.kids) |-> Ser(v.kids[i])], <<",">>)
                   \o <<"]">>
      [] v.k = "obj" ->
           <<"{">> \o Join([i \in 1..Len(v.keys) |->
                              <<DQ>> \o v.keys[i] \o <<DQ, ":">> \o Ser(v.kids[i])],
                           <<",">>)
                   \o <<"}">>

\* the members of d whose position is in keep
Keep(d, keep) ==
    LET F[i \in 0..Len(d.keys)] ==
            IF i = 0 THEN Obj(<<>>, <<>>)
            ELSE IF i \in keep
                 THEN Obj(Append(F[i - 1].keys, d.keys[i]),
                          Append(F[i - 1].kids, d.kids[i]))
                 ELSE F[i - 1]
    IN F[Len(d.keys)]

v_x == Str(<<"x">>)
v_win == Str(<<"W", "I", "N">>)
v_ticks == Str(<<"a">> \o FENCE \o <<"b">>)

Slide(t, fields) ==
    Obj(<<k_type>> \o fields, <<t>> \o [i \in 1..Len(fields) |-> v_x])

\* a slide of a known type with all its fields
FullSlide(t) == Slide(Str(t), Tail(required_fields(t)))

GoodSlides == {FullSlide(t) : t \in KnownTypes}

\* a slide of a known type that lacks some of its fields (never all of them)
LackingSlides ==
    {Keep(FullSlide(t_headline), {1, 2}), Keep(FullSlide(t_headline), {1, 3}),
     Keep(FullSlide(t_stat), {1, 2, 3}), Keep(FullSlide(t_stat), {1, 2, 4}),
     Keep(FullSlide(t_stat), {1, 3, 4}), Keep(FullSlide(t_stat), {1, 3}),
     Keep(FullSlide(t_cta), {1})}

\* a mapping whose type is not one of the three
OddTypeSlides ==
    {Slide(Str(<<"o", "u", "t", "r", "o">>), <<k_text, k_subtext>>),
     Obj(<<k_text, k_subtext>>, <<v_x, v_x>>),
     Slide(None, <<k_text>>),
     Slide(Arr(<<Str(t_stat)>>), <<k_text>>)}

\* an element of slides that is not a mapping
NonMappingSlides == {v_x, None}

SlidePool == GoodSlides \cup LackingSlides \cup OddTypeSlides \cup NonMappingSlides

SlideLists == UNION {[1..n -> SlidePool] : n \in 0..MaxSlides}

\* n well-formed slides: headline, stat, cta, headline, ...
GoodList(n) ==
    [i \in 1..n |-> FullSlide(<<t_headline, t_stat, t_cta>>[((i - 1) % 3) + 1])]

StoryOf(team, match, date, result, slides) ==
    Obj(required_top_level, <<team, match, date, result, slides>>)

GoodStory(slides) == StoryOf(v_x, v_x, v_x, v_win, Arr(slides))

\* values a top-level scalar may take
ScalarPool == {v_x, Str(<<>>), None, Num(<<"1">>), v_ticks}
ResultPool == {v_win, Str(<<"L", "O", "S", "S">>), Str(<<"D", "R", "A", "W">>),
               Str(<<"w", "i", "n">>), Str(<<>>), None}
NonListPool == {Obj(<<>>, <<>>), Obj(<<k_type>>, <<Str(t_cta)>>), v_x,
                Num(<<"4">>), Bool(w_true), None}

\* the decoded objects the schema samples are written from
SchemaDocs ==
    {GoodStory(l) : l \in SlideLists}
    \cup {GoodStory(GoodList(n)) : n \in 0..MaxCount}
    \cup {Keep(GoodStory(GoodList(1)), keep) : keep \in SUBSET (1..5)}
    \cup {StoryOf(v, v_x, v_x, v_win, Arr(GoodList(1))) : v \in ScalarPool}
    \cup {StoryOf(v_x, v, v_x, v_win, Arr(GoodList(1))) : v \in ScalarPool}
    \cup {StoryOf(v_x, v_x, v, v_win, Arr(GoodList(1))) : v \in ScalarPool}
    \cup {StoryOf(v_x, v_x, v_x, v, Arr(GoodList(1))) : v \in ResultPool}
    \cup {StoryOf(v_x, v_x, v_x, v_win, v) : v \in NonListPool}
    \cup {GoodStory(<<Slide(Str(t_headline), <<k_text, k_subtext>>),
                      Obj(<<k_type, k_text, k_subtext>>,
                          <<Str(t_cta), v_ticks, v_x>>)>>)}

\* the decoded objects that are also wrapped and damaged
WrappedDocs ==
    {GoodStory(GoodList(1)), GoodStory(GoodList(2)), GoodStory(<<>>),
     StoryOf(v_ticks, v_x, v_x, v_win, Arr(GoodList(1))),
     Keep(GoodStory(GoodList(1)), {1}),
     GoodStory(GoodList(MaxCount))}

\* JSON values that are not objects, some with an object inside
NonObjectDocs ==
    {Arr(<<GoodStory(GoodList(1))>>), Arr(<<Obj(<<>>, <<>>)>>),
     Arr(<<Obj(<<>>, <<>>), Obj(<<>>, <<>>)>>), Str(<<"{", "}">>),
     Arr(<<>>), Num(<<"4">>), Bool(w_true), None}

Fences == {"none", "tagged", "bare"}
Preambles == {<<>>, <<"H", "i", SP>>, <<"S", "u", "r", "e", "!", SP>>,
              <<"a", "}", SP>>, <<"a", "{", SP>>, <<"s", "e", "e", ":", NL>>}
Trailers == {<<>>, <<SP, "o", "k">>, <<NL, "o", "k", NL>>, <<SP, "}">>,
             <<SP, "{">>}
Damages == {"none", "trailing_comma", "unquoted_key", "cut"}

\* JSON text made invalid, or left alone
Damage(text, how) ==
    CASE how = "none" -> text
      [] how = "trailing_comma" ->
           SubSeq(text, 1, Len(text) - 1) \o <<",", "}">>
      [] how = "unquoted_key" ->
           LET q == {i \in 1..Len(text) : text[i] = DQ}
               a == Min(q)
               b == Min(q \ {a})
           IN SubSeq(text, 1, a - 1) \o SubSeq(text, a + 1, b - 1)
                 \o SubSeq(text, b + 1, Len(text))
      [] how = "cut" -> SubSeq(text, 1, Len(text) - 1)

Fenced(text, fence) ==
    CASE fence = "none" -> text
      [] fence = "tagged" -> FENCE \o w_json \o <<NL>> \o text \o <<NL>> \o FENCE
      [] fence = "bare" -> FENCE \o <<NL>> \o text \o <<NL>> \o FENCE

Chunks == {FENCE, w_json, <<"{">>, <<"}">>, <<SP>>, <<NL>>, <<"a">>, <<TICK>>}

RECURSIVE Flatten(_)
Flatten(parts) ==
    IF parts = <<>> THEN <<>> ELSE parts[1] \o Flatten(Tail(parts))

FreeTexts == {Flatten(c) : c \in UNION {[1..n -> Chunks] : n \in 0..MaxChunks}}

\* n copies of c
Run(c, n) == [i \in 1..n |-> c]

\* prose long enough to reach the excerpt limit
LongPreambles ==
    {<<SP>> \o FENCE \o Run("z", n) \o <<SP>> :
        n \in {RawExcerptLen - 2, RawExcerptLen, CleanedExcerptLen}}

Sample(form, doc, damage, fence, pre, post) ==
    [form |-> form, doc |-> doc, damage |-> damage, fence |-> fence,
     pre |-> pre, post |-> post]

Samples ==
    {Sample("json", d, "none", "none", <<>>, <<>>) : d \in SchemaDocs}
    \cup {Sample("json", d, "none", f, p, t) :
            d \in WrappedDocs, f \in Fences, p \in Preambles, t \in Trailers}
    \cup {Sample("json", d, g, f, p, <<>>) :
            d \in WrappedDocs, g \in Damages, f \in Fences,
            p \in {<<>>, <<"H", "i", SP>>}}
    \cup {Sample("text", None, "none", "none", p, t) :
            p \in {<<>>}, t \in FreeTexts}
    \cup {Sample("text", None, "none", "none", p, t) :
            p \in LongPreambles, t \in Chunks}
    \cup {Sample("json", d, g, "none", <<SP>>, Run("y", RawExcerptLen)) :
            d \in {GoodStory(GoodList(1)), GoodStory(GoodList(MaxCount))},
            g \in Damages}
    \cup {Sample("value", d, "none", f, <<>>, <<>>) :
            d \in NonObjectDocs, f \in {"none", "tagged"}}

\* the raw text of a sample
RawOf(g) ==
    IF g.form = "text" THEN g.pre \o g.post
    ELSE g.pre \o Fenced(Damage(Ser(g.doc), g.damage), g.fence) \o g.post

-----------------------------------------------------------------------------
(* sports_fetcher.py: _extract_match_data builds the match record from the  *)
(* event the API returned and the configuration of the team.                *)

k_strHomeTeam == <<"s", "t", "r", "H", "o", "m", "e", "T", "e", "a", "m">>
k_strAwayTeam == <<"s", "t", "r", "A", "w", "a", "y", "T", "e", "a", "m">>
k_intHomeScore ==
    <<"i", "n", "t", "H", "o", "m", "e", "S", "c", "o", "r", "e">>
k_intAwayScore ==
    <<"i", "n", "t", "A", "w", "a", "y", "S", "c", "o", "r", "e">>
n_manutd ==
    <<"M", "a", "n", "c", "h", "e", "s", "t", "e", "r", SP, "U", "n", "i",
      "t", "e", "d">>
n_lakers ==
    <<"L", "o", "s", SP, "A", "n", "g", "e", "l", "e", "s", SP, "L", "a",
      "k", "e", "r", "s">>
n_MANUTD ==
    <<"M", "A", "N", "C", "H", "E", "S", "T", "E", "R", SP, "U", "N", "I",
      "T", "E", "D">>
n_chelsea == <<"C", "h", "e", "l", "s", "e", "a">>
w_Infinity == <<"I", "n", "f", "i", "n", "i", "t", "y">>
UpperCase ==
    <<"A", "B", "C", "D", "E", "F", "G", "H", "I", "J", "K", "L", "M", "N",
      "O", "P", "Q", "R", "S", "T", "U", "V", "W", "X", "Y", "Z">>
LowerCase ==
    <<"a", "b", "c", "d", "e", "f", "g", "h", "i", "j", "k", "l", "m", "n",
      "o", "p", "q", "r", "s", "t", "u", "v", "w", "x", "y", "z">>
DigitChars == <<"0", "1", "2", "3", "4", "5", "6", "7", "8", "9">>

TEAM_CONFIG ==
    [t \in {"manutd", "lakers"} |->
        IF t = "manutd" THEN [name |-> n_manutd, api_name |-> n_manutd]
        ELSE [name |-> n_lakers, api_name |-> n_lakers]]

\* str.lower
lower(text) ==
    [i \in 1..Len(text) |->
        IF \E j \in 1..26 : UpperCase[j] = text[i]
        THEN LowerCase[CHOOSE j \in 1..26 : UpperCase[j] = text[i]]
        ELSE text[i]]

\* raw.get(key, default)
GetOr(d, key, default) == IF Has(d, key) THEN Get(d, key) ELSE default

\* the number written with the decimal digits of text
RECURSIVE Decimal(_)
Decimal(text) ==
    IF text = <<>> THEN 0
    ELSE 10 * Decimal(SubSeq(text, 1, Len(text) - 1))
         + (CHOOSE d \in 0..9 : DigitChars[d + 1] = text[Len(text)])

AllDigits(text) == text # <<>> /\ \A i \in 1..Len(text) : text[i] \in Digits

\* an optional sign and digits: [ok, val]
Signed(text) ==
    IF text # <<>> /\ text[1] \in {"-", "+"}
    THEN IF AllDigits(Tail(text))
         THEN [ok |-> TRUE,
               val |-> IF text[1] = "-" THEN 0 - Decimal(Tail(text))
                       ELSE Decimal(Tail(text))]
         ELSE [ok |-> FALSE, val |-> 0]
    ELSE IF AllDigits(text) THEN [ok |-> TRUE, val |-> Decimal(text)]
    ELSE [ok |-> FALSE, val |-> 0]

\* the part of a number's text before the decimal point
Whole(text) ==
    LET dots == {i \in 1..Len(text) : text[i] = "."}
    IN IF dots = {} THEN text ELSE SubSeq(text, 1, Min(dots) - 1)

\* int(value): [err, val]; a string is trimmed and must be a signed whole
\* number, a float is cut towards zero, True and False are 1 and 0
int(value) ==
    CASE value.k = "str" ->
           IF Signed(strip(value.s)).ok
           THEN [err |-> "none", val |-> Signed(strip(value.s)).val]
           ELSE [err |-> "ValueError", val |-> 0]
      [] value.k = "num" ->
           IF value.s = w_Infinity THEN [err |-> "OverflowError", val |-> 0]
           ELSE [err |-> "none", val |-> Signed(Whole(value.s)).val]
      [] value.k = "bool" ->
           [err |-> "none", val |-> IF value.s = w_true THEN 1 ELSE 0]
      [] OTHER -> [err |-> "TypeError", val |-> 0]

\* safe_int: 0 for None and for what int() rejects with ValueError or
\* TypeError; any other exception of int() goes on to the caller
safe_int(value) ==
    IF value = None THEN [err |-> "none", val |-> 0]
    ELSE IF int(value).err \in {"ValueError", "TypeError"}
    THEN [err |-> "none", val |-> 0]
    ELSE int(value)

\* _extract_match_data left through the exception exc: no record is built
Failed(exc) ==
    [err |-> exc, home_team |-> None, away_team |-> None, home_score |-> 0,
     away_score |-> 0, is_home |-> FALSE, our_score |-> 0, opp_score |-> 0,
     opponent |-> None, result |-> ""]

NoMatch == Failed("none")

NoEvent == Obj(<<>>, <<>>)

\* _extract_match_data comparing the scores as they stand, home before away
extract_match_data_HomeFirst(ev, config) ==
    LET home_team == GetOr(ev, k_strHomeTeam, Str(<<>>))
        away_team == GetOr(ev, k_strAwayTeam, Str(<<>>))
        home == safe_int(Get(ev, k_intHomeScore))
        away == safe_int(Get(ev, k_intAwayScore))
    IN IF home_team.k # "str" THEN Failed("AttributeError")
       ELSE IF home.err # "none" THEN Failed(home.err)
       ELSE IF away.err # "none" THEN Failed(away.err)
       ELSE LET is_home == lower(config.api_name) = lower(home_team.s)
                our_score == IF is_home THEN home.val ELSE away.val
                opp_score == IF is_home THEN away.val ELSE home.val
            IN [err |-> "none", home_team |-> home_team, away_team |-> away_team,
                home_score |-> home.val, away_score |-> away.val,
                is_home |-> is_home, our_score |-> our_score,
                opp_score |-> opp_score,
                opponent |-> IF is_home THEN away_team ELSE home_team,
                result |-> IF home.val > away.val THEN "WIN"
                           ELSE IF home.val < away.val THEN "LOSS"
                           ELSE "DRAW"]

\* _extract_match_data, lines 145-169 and the fields of the record they fill
extract_match_data(ev, config) ==
    LET home_team == GetOr(ev, k_strHomeTeam, Str(<<>>))
        away_team == GetOr(ev, k_strAwayTeam, Str(<<>>))
        home == safe_int(Get(ev, k_intHomeScore))
        away == safe_int(Get(ev, k_intAwayScore))
    IN IF home_team.k # "str" THEN Failed("AttributeError")
       ELSE IF home.err # "none" THEN Failed(home.err)
       ELSE IF away.err # "none" THEN Failed(away.err)
       ELSE LET is_home == lower(config.api_name) = lower(home_team.s)
                our_score == IF is_home THEN home.val ELSE away.val
                opp_score == IF is_home THEN away.val ELSE home.val
            IN [err |-> "none", home_team |-> home_team, away_team |-> away_team,
                home_score |-> home.val, away_score |-> away.val,
                is_home |-> is_home, our_score |-> our_score,
                opp_score |-> opp_score,
                opponent |-> IF is_home THEN away_team ELSE home_team,
                result |-> IF our_score > opp_score THEN "WIN"
                           ELSE IF our_score < opp_score THEN "LOSS"
                           ELSE "DRAW"]

\* what the API may send as a team name and as a score
NameValues == {Str(n_manutd), Str(n_MANUTD), Str(n_lakers), Str(n_chelsea), None}
ScoreValues ==
    {None, Num(<<"0">>), Num(<<"2">>), Num(<<"1", "0">>), Num(<<"2", ".", "7">>),
     Num(w_Infinity), Str(<<"2">>), Str(<<"9">>), Str(<<"1", "0">>),
     Str(<<SP, "1", SP>>), Str(<<"-", "1">>), Str(<<>>), Str(<<"a">>),
     Str(<<"2", ".", "5">>), Bool(w_true), Arr(<<>>)}

\* an event with the members named in keep
Event(home_team, away_team, home_score, away_score, keep) ==
    Keep(Obj(<<k_strHomeTeam, k_strAwayTeam, k_intHomeScore, k_intAwayScore>>,
             <<home_team, away_team, home_score, away_score>>), keep)

Events ==
    {Event(h, a, x, y, 1..4) :
        h \in NameValues, a \in {Str(n_chelsea), Str(n_manutd)},
        x \in ScoreValues, y \in ScoreValues}
    \cup {Event(Str(n_lakers), Str(n_chelsea), x, Num(<<"2">>), keep) :
            x \in ScoreValues, keep \in SUBSET (1..4)}

\* the events of the runs of main
RunEvents ==
    {Event(Str(n_manutd), Str(n_chelsea), Str(<<"2">>), Str(<<"1">>), 1..4),
     Event(Str(n_chelsea), Str(n_lakers), None, Str(<<"9">>), 1..4)}

-----------------------------------------------------------------------------
(* parse_and_save *)

TeamKeys == {"lakers", "manutd"}
Stamps == {1, 2}

\* output/{team_key}_story_{timestamp}.{ext} and what was written to it
File(team_key, timestamp, ext, content) ==
    [team |-> team_key, stamp |-> timestamp, ext |-> ext, content |-> content]

PathOf(f) == <<f.team, f.stamp, f.ext>>

Paths(dir) == {PathOf(f) : f \in dir}

\* open(path, "w") and write: a file of the same path is replaced
Written(dir, f) == {g \in dir : PathOf(g) # PathOf(f)} \cup {f}

\* no call of parse_and_save has ended, main is not running
NoCallsYet == calls = 1 /\ history = {}

MainIdle ==
    /\ team_keys = <<>>
    /\ cur_team = "none"
    /\ stage = "none"
    /\ results = <<>>
    /\ log = <<>>
    /\ handed = None
    /\ status = "none"
    /\ event = NoEvent
    /\ last_match = NoMatch

IOError == Exc("IOError", "untyped", <<>>, "Failed to write output file", 0,
               <<>>, 0, None, <<>>)

Init ==
    /\ given \in Samples
    /\ raw = RawOf(given)
    /\ pc = "clean"
    /\ cleaned = <<>>
    /\ story = None
    /\ error = NoError
    /\ warned = FALSE
    /\ files = {}
    /\ NoCallsYet
    /\ MainIdle

\* step 1, line 32
CleanResponse ==
    /\ pc = "clean"
    /\ LET r == clean_response(raw)
       IN /\ error' = r.err
          /\ cleaned' = r.out
          /\ pc' = IF r.err = NoError THEN "parse" ELSE "failed"
    /\ UNCHANGED <<given, raw, story, warned, files, callvars, orch>>

\* step 2, line 35
ParseJson ==
    /\ pc = "parse"
    /\ LET r == parse_json(cleaned)
       IN /\ error' = r.err
          /\ story' = r.out
          /\ pc' = IF r.err = NoError THEN "validate" ELSE "failed"
    /\ UNCHANGED <<given, raw, cleaned, warned, files, callvars, orch>>

\* parse_and_save going on to _write_json whatever the schema check found
ValidateSchema_Lenient ==
    /\ pc = "validate"
    /\ LET r == validate_schema(story)
       IN /\ error' = r.err
          /\ warned' = r.warn
          /\ pc' = "write"
    /\ UNCHANGED <<given, raw, cleaned, story, files, callvars, orch>>

\* step 3, line 39
ValidateSchema ==
    /\ pc = "validate"
    /\ LET r == validate_schema(story)
       IN /\ error' = r.err
          /\ warned' = r.warn
          /\ pc' = IF r.err = NoError THEN "write" ELSE "failed"
    /\ UNCHANGED <<given, raw, cleaned, story, files, callvars, orch>>

\* _write_json putting the team key into the story it writes
WriteJson_StampsTeam(team_key) ==
    /\ pc = "write"
    /\ story' = Put(story, k_team, Str(<<team_key>>))
    /\ \E timestamp \in Stamps :
          files' = Written(files, File(team_key, timestamp, "json", story'))
    /\ pc' = "done"
    /\ UNCHANGED <<given, raw, cleaned, error, warned, callvars, orch>>

\* step 4, lines 42-45: the file is written and the story returned
WriteJson(team_key) ==
    /\ pc = "write"
    /\ \E timestamp \in Stamps :
          files' = Written(files, File(team_key, timestamp, "json", story))
    /\ pc' = "done"
    /\ UNCHANGED <<given, raw, cleaned, story, error, warned, callvars, orch>>

\* step 4, lines 201-205: the file cannot be written
WriteFails ==
    /\ pc = "write"
    /\ error' = IOError
    /\ pc' = "failed"
    /\ UNCHANGED <<given, raw, cleaned, story, warned, files, callvars, orch>>

Next ==
    \/ CleanResponse
    \/ ParseJson
    \/ ValidateSchema
    \/ \E team_key \in TeamKeys : WriteJson(team_key)
    \/ WriteFails

Spec == Init /\ [][Next]_vars

-----------------------------------------------------------------------------
(* Several calls of parse_and_save in one process, as made by the loop of  *)
(* main and by the test block of story_parser.py.  The output directory is *)
(* kept from call to call; the locals of a call are not.                   *)

MaxCalls == 3      \* calls of parse_and_save in one process

\* the raw texts of the repeated calls
CallSamples ==
    {Sample("json", GoodStory(GoodList(1)), "none", "tagged", <<"H", "i", SP>>, <<>>),
     Sample("json", GoodStory(GoodList(2)), "none", "none", <<>>, <<>>),
     Sample("json", GoodStory(<<Keep(FullSlide(t_cta), {1})>>), "none", "none",
            <<>>, <<>>),
     Sample("json", GoodStory(GoodList(1)), "cut", "bare", <<>>, <<>>),
     Sample("text", None, "none", "none", <<>>, <<"a">>)}

\* what a call ended with, as far as cleaning, decoding and the schema go
Outcome ==
    [ok |-> pc = "done" \/ (pc = "failed" /\ error.exc = "IOError"),
     story |-> IF pc = "done" \/ (pc = "failed" /\ error.exc = "IOError")
               THEN story ELSE None,
     error |-> IF pc = "failed" /\ error.exc # "IOError" THEN error ELSE NoError,
     warned |-> warned]

InitCalls ==
    /\ given \in CallSamples
    /\ raw = RawOf(given)
    /\ pc = "clean"
    /\ cleaned = <<>>
    /\ story = None
    /\ error = NoError
    /\ warned = FALSE
    /\ files = {}
    /\ NoCallsYet
    /\ MainIdle

\* the call has returned or raised, and the caller calls again
CallAgain ==
    /\ pc \in {"done", "failed"}
    /\ calls < MaxCalls
    /\ calls' = calls + 1
    /\ history' = history \cup {[raw |-> raw, outcome |-> Outcome]}
    /\ \E g \in CallSamples :
          /\ given' = g
          /\ raw' = RawOf(g)
    /\ pc' = "clean"
    /\ cleaned' = <<>>
    /\ story' = None
    /\ error' = NoError
    /\ warned' = FALSE
    /\ UNCHANGED <<files, orch>>

NextCalls ==
    \/ CleanResponse
    \/ ParseJson
    \/ ValidateSchema
    \/ \E team_key \in TeamKeys : WriteJson(team_key)
    \/ WriteFails
    \/ CallAgain

SpecCalls == InitCalls /\ [][NextCalls]_vars

-----------------------------------------------------------------------------
(* html_renderer.py: the page is a value that holds what the renderer read  *)
(* from the story and from the theme.                                       *)

k_class == <<"c", "l", "a", "s", "s">>
k_bg == <<"b", "g">>
k_result_tag == <<"r", "e", "s", "u", "l", "t", "_", "t", "a", "g">>
k_theme == <<"t", "h", "e", "m", "e">>
w_unknown == <<"U", "n", "k", "n", "o", "w", "n">>

\* d[name] for a name d does not have
KeyError(name) == Exc("KeyError", "untyped", <<>>, "", 0, name, 0, None, <<>>)

\* the rendering, or the exception that ended it
Rendered(err, out) == [err |-> err, out |-> out]

\* _get_theme: the palette of the team and the colour of the result badge;
\* the badge colour is put into the theme, the story is only read
get_theme(team_key, result) ==
    LET bg == CASE team_key = "lakers" -> "#1a0533"
                [] team_key = "manutd" -> "#1a0505"
                [] OTHER -> "#0f0f0f"
        tag == CASE result = Str(<<"W", "I", "N">>) -> "#00C851"
                 [] result = Str(<<"L", "O", "S", "S">>) -> "#ff4444"
                 [] result = Str(<<"D", "R", "A", "W">>) -> "#ffbb33"
                 [] OTHER -> "#888888"
    IN IF Unhashable(result)
       THEN Rendered(TypeError(0, result), None)
       ELSE Rendered(NoError, Obj(<<k_bg, k_result_tag>>, <<Str(<<bg>>), Str(<<tag>>)>>))

\* a slide block that shows the fields named, read in that order
Block(slide, class, fields, badge) ==
    LET miss == MissingIn(slide, fields)
    IN IF miss # {}
       THEN Rendered(KeyError(fields[Min(miss)]), None)
       ELSE Rendered(NoError,
                     Obj(<<k_class>> \o badge.keys \o fields,
                         <<Str(class)>> \o badge.kids
                            \o [j \in 1..Len(fields) |-> Get(slide, fields[j])]))

render_headline(slide, theme, result) ==
    Block(slide, t_headline, <<k_text, k_subtext>>,
          Obj(<<k_result_tag, k_result>>, <<Get(theme, k_result_tag), result>>))

render_stat(slide, theme) ==
    Block(slide, t_stat, <<k_stat_label, k_stat_value, k_narrative>>, Obj(<<>>, <<>>))

render_cta(slide, theme) ==
    Block(slide, t_cta, <<k_text, k_subtext>>, Obj(<<>>, <<>>))

\* _render_slide without the branch for cta slides
render_slide_NoCta(slide, theme, result) ==
    IF slide.k # "obj" THEN Rendered(AttributeError(0, slide), None)
    ELSE LET slide_type == Get(slide, k_type)
         IN IF slide_type = Str(t_headline) THEN render_headline(slide, theme, result)
            ELSE IF slide_type = Str(t_stat) THEN render_stat(slide, theme)
            ELSE Rendered(NoError,
                          Obj(<<k_class, k_type>>, <<Str(w_unknown), slide_type>>))

\* _render_slide: dispatch on the type, with a block for any other type
render_slide(slide, theme, result) ==
    IF slide.k # "obj" THEN Rendered(AttributeError(0, slide), None)
    ELSE LET slide_type == Get(slide, k_type)
         IN IF slide_type = Str(t_headline) THEN render_headline(slide, theme, result)
            ELSE IF slide_type = Str(t_stat) THEN render_stat(slide, theme)
            ELSE IF slide_type = Str(t_cta) THEN render_cta(slide, theme)
            ELSE Rendered(NoError,
                          Obj(<<k_class, k_type>>, <<Str(w_unknown), slide_type>>))

\* the generator of lines 29-31 from slide number i on; out holds the blocks
RECURSIVE RenderSlides(_, _, _, _, _)
RenderSlides(slides, theme, result, i, out) ==
    IF i > Len(slides) THEN Rendered(NoError, Arr(out))
    ELSE LET r == render_slide(slides[i], theme, result)
         IN IF r.err # NoError THEN r
            ELSE RenderSlides(slides, theme, result, i + 1, Append(out, r.out))

\* what the loop over story["slides"] runs over
Iterated(v) ==
    CASE v.k = "arr" -> v.kids
      [] v.k = "obj" -> [i \in 1..Len(v.keys) |-> Str(v.keys[i])]
      [] v.k = "str" -> [i \in 1..Len(v.s) |-> Str(<<v.s[i]>>)]
      [] OTHER -> <<>>

\* _build_document: the page made of the theme, the header and the blocks
build_document(d, slides_html, theme) ==
    LET miss == MissingIn(d, <<k_team, k_match, k_date>>)
    IN IF miss # {}
       THEN Rendered(KeyError(<<k_team, k_match, k_date>>[Min(miss)]), None)
       ELSE Rendered(NoError,
                     Obj(<<k_theme, k_team, k_match, k_date, k_slides>>,
                         <<theme, Get(d, k_team), Get(d, k_match),
                           Get(d, k_date), slides_html>>))

\* render_html up to the page it writes (steps 1 to 3)
render_html(d, team_key) ==
    IF ~Has(d, k_result) THEN Rendered(KeyError(k_result), None)
    ELSE LET result == Get(d, k_result)
             theme == get_theme(team_key, result)
         IN IF theme.err # NoError THEN theme
            ELSE IF ~Has(d, k_slides) THEN Rendered(KeyError(k_slides), None)
            ELSE IF Get(d, k_slides).k \in {"num", "bool", "null"}
            THEN Rendered(TypeError(0, Get(d, k_slides)), None)
            ELSE LET blocks == RenderSlides(Iterated(Get(d, k_slides)),
                                            theme.out, result, 1, <<>>)
                 IN IF blocks.err # NoError THEN blocks
                    ELSE build_document(d, blocks.out, theme.out)

-----------------------------------------------------------------------------
(* main.py: main runs run_pipeline for each team chosen; run_pipeline calls *)
(* the five stages one after the other, and an exception of a stage ends    *)
(* the run and is caught by the loop of main.                               *)

\* the menu: choice -> key
TEAMS == [c \in {"1", "2", "3"} |->
            CASE c = "1" -> "manutd" [] c = "2" -> "lakers" [] c = "3" -> "both"]

Stages == <<"fetch", "build", "generate", "validate", "render">>

\* the exceptions the stages raise, all of them subclasses of Exception
FetchErrors == {"ConnectionError", "ValueError"}
BuildErrors == {"KeyError"}
GenerateErrors == {"ValueError", "APIError"}
ExceptionClasses ==
    FetchErrors \cup BuildErrors \cup GenerateErrors
        \cup {"AttributeError", "TypeError", "OverflowError", "IOError", "OSError"}

\* the texts generate_story returns
RunSamples ==
    {Sample("json", GoodStory(GoodList(3)), "none", "tagged", <<>>, <<>>),
     Sample("json", GoodStory(GoodList(2)), "none", "none", <<"H", "i", SP>>, <<>>),
     Sample("json", StoryOf(v_x, v_x, v_x, Arr(<<>>), Arr(GoodList(1))),
            "none", "none", <<>>, <<>>),
     Sample("json", GoodStory(<<Keep(FullSlide(t_stat), {1, 2, 3})>>),
            "none", "none", <<>>, <<>>),
     Sample("json", GoodStory(<<v_x>>), "none", "none", <<>>, <<>>),
     Sample("json", GoodStory(GoodList(1)), "trailing_comma", "none", <<>>, <<>>),
     Sample("text", None, "none", "none", <<>>, <<"a">>)}

NoSample == Sample("text", None, "none", "none", <<>>, <<>>)

\* the except clauses of main, in order
Handler_NoCatchAll(exc) ==
    IF exc = "ConnectionError" THEN "connection"
    ELSE IF exc = "ValueError" THEN "data"
    ELSE "uncaught"

Handler(exc) ==
    IF exc = "ConnectionError" THEN "connection"
    ELSE IF exc = "ValueError" THEN "data"
    ELSE IF exc \in ExceptionClasses THEN "unexpected"
    ELSE "uncaught"

\* the stage s of the current run has ended with result r
Logged(s, r) == log' = Append(log, [team |-> cur_team, stage |-> s, result |-> r])

\* stage s raises exc: run_pipeline is left, main prints and goes on with
\* the loop, or is left too when no except clause matches
Raise(s, exc) ==
    /\ Logged(s, exc)
    /\ stage' = "none"
    /\ status' = IF Handler(exc) = "uncaught" THEN "aborted" ELSE status

\* stage s returns and stage n is next
Return(s, n) ==
    /\ Logged(s, "returned")
    /\ stage' = n
    /\ status' = status

InitMain ==
    /\ status = "start"
    /\ team_keys = <<>>
    /\ cur_team = "none"
    /\ stage = "none"
    /\ results = <<>>
    /\ log = <<>>
    /\ handed = None
    /\ given = NoSample
    /\ raw = <<>>
    /\ pc = "idle"
    /\ cleaned = <<>>
    /\ story = None
    /\ error = NoError
    /\ warned = FALSE
    /\ files = {}
    /\ calls = 0
    /\ history = {}
    /\ event = NoEvent
    /\ last_match = NoMatch

\* lines 170-185
GetUserChoice ==
    /\ status = "start"
    /\ \E choice \in DOMAIN TEAMS :
          team_keys' = IF TEAMS[choice] = "both" THEN <<"manutd", "lakers">>
                       ELSE <<TEAMS[choice]>>
    /\ results' = <<>>
    /\ status' = "running"
    /\ UNCHANGED <<pc, given, raw, cleaned, story, error, warned, files, callvars,
                   cur_team, stage, log, handed, event, last_match>>

\* how far the loop over team_keys has come
Position ==
    IF cur_team = "none" THEN 0
    ELSE CHOOSE i \in 1..Len(team_keys) : team_keys[i] = cur_team

\* the next iteration of the loop of main enters run_pipeline
StartPipeline ==
    /\ status = "running"
    /\ stage = "none"
    /\ Position < Len(team_keys)
    /\ cur_team' = team_keys[Position + 1]
    /\ stage' = "fetch"
    /\ event' = NoEvent
    /\ last_match' = NoMatch
    /\ handed' = None
    /\ given' = NoSample
    /\ raw' = <<>>
    /\ pc' = "idle"
    /\ cleaned' = <<>>
    /\ story' = None
    /\ error' = NoError
    /\ warned' = FALSE
    /\ UNCHANGED <<files, callvars, team_keys, results, log, status>>

\* stage 1: the request fails or brings no result, or the API returns one
\* of the events and the record is built from it
FetchLastMatch(events) ==
    /\ stage = "fetch"
    /\ \/ /\ \E exc \in FetchErrors : Raise("fetch", exc)
          /\ UNCHANGED <<event, last_match>>
       \/ \E ev \in events :
             LET cleaned_match == extract_match_data(ev, TEAM_CONFIG[cur_team])
             IN /\ event' = ev
                /\ last_match' = cleaned_match
                /\ IF cleaned_match.err = "none"
                   THEN Return("fetch", "build")
                   ELSE Raise("fetch", cleaned_match.err)
    /\ UNCHANGED <<pc, given, raw, cleaned, story, error, warned, files, callvars,
                   team_keys, cur_team, results, handed>>

\* stage 2
BuildPrompt ==
    /\ stage = "build"
    /\ \/ Return("build", "generate")
       \/ \E exc \in BuildErrors : Raise("build", exc)
    /\ UNCHANGED <<pc, given, raw, cleaned, story, error, warned, files, callvars,
                   team_keys, cur_team, results, handed, event, last_match>>

\* stage 3 returns a text, and parse_and_save is called with it
GenerateStory ==
    /\ stage = "generate"
    /\ \/ /\ Return("generate", "validate")
          /\ \E g \in RunSamples :
                /\ given' = g
                /\ raw' = RawOf(g)
          /\ pc' = "clean"
          /\ calls' = calls + 1
       \/ /\ \E exc \in GenerateErrors : Raise("generate", exc)
          /\ UNCHANGED <<pc, given, raw, calls>>
    /\ UNCHANGED <<cleaned, story, error, warned, files, history,
                   team_keys, cur_team, results, handed, event, last_match>>

\* stage 4 returns the story, and render_html is called with it
ParseReturns ==
    /\ stage = "validate"
    /\ pc = "done"
    /\ Return("validate", "render")
    /\ handed' = story
    /\ UNCHANGED <<pc, given, raw, cleaned, story, error, warned, files, callvars,
                   team_keys, cur_team, results, event, last_match>>

\* stage 4 raising, and run_pipeline rendering what was decoded all the same
ParseRaises_RendersAnyway ==
    /\ stage = "validate"
    /\ pc = "failed"
    /\ Logged("validate", error.exc)
    /\ stage' = "render"
    /\ handed' = story
    /\ UNCHANGED <<pc, given, raw, cleaned, story, error, warned, files, callvars,
                   team_keys, cur_team, results, status, event, last_match>>

\* stage 4 raises
ParseRaises ==
    /\ stage = "validate"
    /\ pc = "failed"
    /\ Raise("validate", error.exc)
    /\ UNCHANGED <<pc, given, raw, cleaned, story, error, warned, files, callvars,
                   team_keys, cur_team, results, handed, event, last_match>>

\* render_html putting the badge colour into the story instead of the theme
RenderHtml_TagsStory ==
    /\ stage = "render"
    /\ LET page == render_html(handed, cur_team)
       IN IF page.err # NoError
          THEN /\ Raise("render", page.err.exc)
               /\ UNCHANGED <<files, results, story, handed>>
          ELSE /\ Return("render", "none")
               /\ story' = Put(story, k_result_tag, Get(Get(page.out, k_theme), k_result_tag))
               /\ handed' = story'
               /\ \E timestamp \in Stamps :
                     /\ files' = Written(files, File(cur_team, timestamp, "html", page.out))
                     /\ results' = Append(results,
                                          [team |-> cur_team,
                                           match |-> Get(story', k_match),
                                           result |-> Get(story', k_result),
                                           html_path |-> <<cur_team, timestamp, "html">>])
    /\ UNCHANGED <<pc, given, raw, cleaned, error, warned, callvars,
                   team_keys, cur_team, event, last_match>>

\* stage 5 and the return of run_pipeline: the page is written and the
\* summary of the run is appended to results
RenderHtml ==
    /\ stage = "render"
    /\ LET page == render_html(handed, cur_team)
       IN IF page.err # NoError
          THEN /\ Raise("render", page.err.exc)
               /\ UNCHANGED <<files, results>>
          ELSE /\ Return("render", "none")
               /\ \E timestamp \in Stamps :
                     /\ files' = Written(files, File(cur_team, timestamp, "html", page.out))
                     /\ results' = Append(results,
                                          [team |-> cur_team,
                                           match |-> Get(story, k_match),
                                           result |-> Get(story, k_result),
                                           html_path |-> <<cur_team, timestamp, "html">>])
    /\ UNCHANGED <<pc, given, raw, cleaned, story, error, warned, callvars,
                   team_keys, cur_team, handed, event, last_match>>

\* the page cannot be written
RenderWriteFails ==
    /\ stage = "render"
    /\ render_html(handed, cur_team).err = NoError
    /\ Raise("render", "OSError")
    /\ UNCHANGED <<pc, given, raw, cleaned, story, error, warned, files, callvars,
                   team_keys, cur_team, results, handed, event, last_match>>

\* main exiting with status 1 as soon as one run has failed
Finish_ExitOnAnyFailure ==
    /\ status = "running"
    /\ stage = "none"
    /\ Position = Len(team_keys)
    /\ status' = IF Len(results) < Len(team_keys) THEN "exit1" ELSE "summary"
    /\ UNCHANGED <<pc, given, raw, cleaned, story, error, warned, files, callvars,
                   team_keys, cur_team, stage, results, log, handed, event, last_match>>

\* after the loop: exit status 1 without results, the summary otherwise
Finish ==
    /\ status = "running"
    /\ stage = "none"
    /\ Position = Len(team_keys)
    /\ status' = IF results = <<>> THEN "exit1" ELSE "summary"
    /\ UNCHANGED <<pc, given, raw, cleaned, story, error, warned, files, callvars,
                   team_keys, cur_team, stage, results, log, handed, event, last_match>>

NextMain ==
    \/ GetUserChoice
    \/ StartPipeline
    \/ FetchLastMatch(RunEvents)
    \/ BuildPrompt
    \/ GenerateStory
    \/ CleanResponse
    \/ ParseJson
    \/ ValidateSchema
    \/ WriteJson(cur_team)
    \/ WriteFails
    \/ ParseReturns
    \/ ParseRaises
    \/ RenderHtml
    \/ RenderWriteFails
    \/ Finish

SpecMain == InitMain /\ [][NextMain]_vars

-----------------------------------------------------------------------------
(* Stage 1 alone: main up to the return of fetch_last_match, for every     *)
(* event the API may send.                                                 *)

NextFetch ==
    \/ GetUserChoice
    \/ StartPipeline
    \/ FetchLastMatch(Events)

SpecFetch == InitMain /\ [][NextFetch]_vars

-----------------------------------------------------------------------------
(* Vocabulary of the properties *)

\* _clean_response and _parse_json both returned
Decoded ==
    \/ pc \in {"validate", "write", "done"}
    \/ pc = "failed" /\ error.tag \notin {"NoJsonFound", "MalformedJson"}

\* _validate_schema was run to its end, whatever the result
SchemaChecked == Decoded /\ pc # "validate"

\* _validate_schema returned: the story is accepted
Validated ==
    \/ pc \in {"write", "done"}
    \/ pc = "failed" /\ error.exc = "IOError"

TypedErrors == {"NoJsonFound", "MalformedJson", "MissingField", "WrongType",
                "UnknownSlideType", "MissingSlideField"}

Results == {<<"W", "I", "N">>, <<"L", "O", "S", "S">>, <<"D", "R", "A", "W">>}

\* the fields a slide of type t must carry, besides its type
Requires(t) ==
    IF t = <<"s", "t", "a", "t">>
    THEN <<k_stat_label, k_stat_value, k_narrative>>
    ELSE <<k_text, k_subtext>>

TypeTags == {<<"h", "e", "a", "d", "l", "i", "n", "e">>, <<"s", "t", "a", "t">>,
             <<"c", "t", "a">>}

\* v is a mapping tagged with one of the three types
TaggedSlide(v) ==
    /\ v.k = "obj"
    /\ Has(v, k_type)
    /\ Get(v, k_type).k = "str"
    /\ Get(v, k_type).s \in TypeTags

\* v is a tagged slide that carries every field of its type
WellFormedSlide(v) ==
    /\ TaggedSlide(v)
    /\ \A j \in 1..Len(Requires(Get(v, k_type).s)) :
          Has(v, Requires(Get(v, k_type).s)[j])

NonEmptyString(v) == v.k = "str" /\ v.s # <<>>

HasTopLevelKeys(d) ==
    /\ d.k = "obj"
    /\ \A key \in {k_team, k_match, k_date, k_result, k_slides} : Has(d, key)

\* d is a Story as the data model describes it
StoryShaped(d) ==
    /\ HasTopLevelKeys(d)
    /\ \A key \in {k_team, k_match, k_date} : NonEmptyString(Get(d, key))
    /\ Get(d, k_result).k = "str" /\ Get(d, k_result).s \in Results
    /\ Get(d, k_slides).k = "arr"
    /\ \A i \in 1..Len(Get(d, k_slides).kids) :
          WellFormedSlide(Get(d, k_slides).kids[i])

NoBraces(text) == \A i \in 1..Len(text) : text[i] \notin {"{", "}"}

FirstOf(S) == CHOOSE m \in S : \A n \in S : m <= n

-----------------------------------------------------------------------------
(* C1, as claimed: a Story-shaped object written out as JSON, fenced or    *)
(* not, after any preamble and before any trailer without braces, is       *)
(* accepted and the story returned equals the object.                      *)
C1_WrappedStoryReturned ==
    (/\ pc \notin {"clean", "parse", "validate"}
     /\ given.form = "json"
     /\ given.damage = "none"
     /\ StoryShaped(given.doc)
     /\ NoBraces(given.post))
    => (Validated /\ story = given.doc)

(* C2, as claimed: a call that fails before the file is written fails with *)
(* one of the six typed errors, all of them ValueError.                    *)
C2_OnlyTypedFailures ==
    (pc = "failed" /\ error.exc # "IOError")
    => (error.exc = "ValueError" /\ error.tag \in TypedErrors)

(* C3: every accepted story has only slides of the three known types, each *)
(* carrying every field its type requires.                                 *)
C3_AcceptedSlidesWellFormed ==
    Validated =>
        /\ Get(story, k_slides).k = "arr"
        /\ \A i \in 1..Len(Get(story, k_slides).kids) :
              WellFormedSlide(Get(story, k_slides).kids[i])

C3_Witness ==
    /\ Validated
    /\ Len(Get(story, k_slides).kids) >= 2
    /\ \E i \in 1..Len(Get(story, k_slides).kids) :
          Get(Get(story, k_slides).kids[i], k_type).s = <<"s", "t", "a", "t">>

(* C4, as claimed: every accepted story has team, match and date that are  *)
(* non-empty strings and a result that is WIN, LOSS or DRAW.               *)
C4_AcceptedScalarsChecked ==
    Validated =>
        /\ \A key \in {k_team, k_match, k_date} : NonEmptyString(Get(story, key))
        /\ Get(story, k_result).k = "str"
        /\ Get(story, k_result).s \in Results

(* C5: when the trimmed, fence-stripped text has no opening brace or no    *)
(* closing brace, the call fails with NoJsonFound and the diagnostic holds *)
(* the first 200 characters of the raw text as it was passed in.           *)
C5_NoJsonFoundCarriesRaw ==
    (/\ pc # "clean"
     /\ LET stripped == StripFences(raw)
        IN \/ \A i \in 1..Len(stripped) : stripped[i] # "{"
           \/ \A i \in 1..Len(stripped) : stripped[i] # "}")
    => /\ pc = "failed"
       /\ error.exc = "ValueError"
       /\ error.tag = "NoJsonFound"
       /\ error.text = SubSeq(raw, 1, IF Len(raw) < 200 THEN Len(raw) ELSE 200)

C5_Witness ==
    /\ pc = "failed"
    /\ error.tag = "NoJsonFound"
    /\ Len(raw) > 200
    /\ Len(error.text) = 200
    /\ error.text # SubSeq(StripFences(raw), 1, 200)

C7_FirstMissingFieldNamed ==
    (/\ SchemaChecked
     /\ \E j \in 1..5 :
           ~Has(story, <<k_team, k_match, k_date, k_result, k_slides>>[j]))
    => /\ pc = "failed"
       /\ error.exc = "ValueError"
       /\ error.tag = "MissingField"
       /\ error.name =
            <<k_team, k_match, k_date, k_result, k_slides>>[
               FirstOf({j \in 1..5 :
                  ~Has(story, <<k_team, k_match, k_date, k_result, k_slides>>[j])})]
       /\ error.keys = story.keys

C7_Witness ==
    /\ pc = "failed"
    /\ error.tag = "MissingField"
    /\ story.keys = <<k_team>>
    /\ error.name = k_match
    /\ error.keys = <<k_team>>

(* C8: a decoded object with all five keys whose slides value is not a     *)
(* list fails with WrongType naming the actual type, before the slide      *)
(* count is looked at and before any slide is inspected.                   *)
C8_SlidesMustBeList ==
    (/\ SchemaChecked
     /\ HasTopLevelKeys(story)
     /\ Get(story, k_slides).k # "arr")
    => /\ pc = "failed"
       /\ error.exc = "ValueError"
       /\ error.tag = "WrongType"
       /\ error.name = k_slides
       /\ error.msg = CASE Get(story, k_slides).k = "obj" -> "dict"
                        [] Get(story, k_slides).k = "str" -> "str"
                        [] Get(story, k_slides).k = "num" -> "int"
                        [] Get(story, k_slides).k = "bool" -> "bool"
                        [] Get(story, k_slides).k = "null" -> "NoneType"
       /\ error.index = 0
       /\ ~warned

C8_Witness ==
    /\ pc = "failed"
    /\ error.tag = "WrongType"
    /\ Get(story, k_slides).k = "obj"
    /\ Has(Get(story, k_slides), k_type)
    /\ error.msg = "dict"

\* the slide is a mapping whose type is a string outside the three tags
OddlyTagged(v) ==
    /\ v.k = "obj"
    /\ Has(v, k_type)
    /\ Get(v, k_type).k = "str"
    /\ Get(v, k_type).s \notin TypeTags

(* C9, as claimed: a story with the five keys and a slide list that holds  *)
(* a slide of a type outside headline, stat, cta fails with                *)
(* UnknownSlideType naming the position of that slide and its type.        *)
C9_UnknownTypeReported ==
    (/\ SchemaChecked
     /\ HasTopLevelKeys(story)
     /\ Get(story, k_slides).k = "arr"
     /\ \E i \in 1..Len(Get(story, k_slides).kids) :
           OddlyTagged(Get(story, k_slides).kids[i]))
    => /\ pc = "failed"
       /\ error.tag = "UnknownSlideType"
       /\ error.index =
            FirstOf({i \in 1..Len(Get(story, k_slides).kids) :
                        OddlyTagged(Get(story, k_slides).kids[i])})
       /\ error.value = Get(Get(story, k_slides).kids[error.index], k_type)

\* slide v of a known type lacks one of its fields
Lacking(v) == TaggedSlide(v) /\ ~WellFormedSlide(v)

(* C10: when every slide has a known type and some slide lacks a field of  *)
(* its type, the call fails with MissingSlideField naming the position of  *)
(* the first such slide, its type, and the first field it lacks in the     *)
(* order of the type's field list.                                         *)
C10_FirstMissingSlideFieldNamed ==
    (/\ SchemaChecked
     /\ HasTopLevelKeys(story)
     /\ Get(story, k_slides).k = "arr"
     /\ \A i \in 1..Len(Get(story, k_slides).kids) :
           TaggedSlide(Get(story, k_slides).kids[i])
     /\ \E i \in 1..Len(Get(story, k_slides).kids) :
           Lacking(Get(story, k_slides).kids[i]))
    => LET slides == Get(story, k_slides).kids
           first == FirstOf({i \in 1..Len(slides) : Lacking(slides[i])})
           fields == Requires(Get(slides[first], k_type).s)
       IN /\ pc = "failed"
          /\ error.exc = "ValueError"
          /\ error.tag = "MissingSlideField"
          /\ error.index = first
          /\ error.value = Get(slides[first], k_type)
          /\ error.name =
               fields[FirstOf({j \in 1..Len(fields) : ~Has(slides[first], fields[j])})]

C10_Witness ==
    /\ pc = "failed"
    /\ error.tag = "MissingSlideField"
    /\ error.index = 2
    /\ error.value = Str(<<"s", "t", "a", "t">>)
    /\ error.name = k_narrative
    /\ WellFormedSlide(Get(story, k_slides).kids[1])

\* every slide is a mapping whose type is a string
StringTagged(v) == TaggedSlide(v) \/ OddlyTagged(v)

(* C11, as claimed: the type of every slide is checked before the fields   *)
(* of any slide, so a list of string-tagged slides that holds a slide of   *)
(* an unknown type fails with UnknownSlideType at the first such slide,    *)
(* whatever fields the slides before it lack.                              *)
C11_TypesBeforeFields ==
    (/\ SchemaChecked
     /\ HasTopLevelKeys(story)
     /\ Get(story, k_slides).k = "arr"
     /\ \A i \in 1..Len(Get(story, k_slides).kids) :
           StringTagged(Get(story, k_slides).kids[i])
     /\ \E i \in 1..Len(Get(story, k_slides).kids) :
           OddlyTagged(Get(story, k_slides).kids[i]))
    => /\ pc = "failed"
       /\ error.tag = "UnknownSlideType"
       /\ error.index =
            FirstOf({i \in 1..Len(Get(story, k_slides).kids) :
                        OddlyTagged(Get(story, k_slides).kids[i])})

C14_NoFileWritten == [][files' = files]_vars

(* C20, as claimed: every successful write goes to a path that no earlier  *)
(* write went to.                                                          *)
C20_NeverOverwrites ==
    [][(pc = "write" /\ pc' = "done") => Paths(files') # Paths(files)]_vars

(* C15, as claimed: cleaning leaves the JSON between the fences as it was, *)
(* so a valid payload, fenced or not, with prose around it that holds no   *)
(* brace, decodes to the value it was written from, also when a string in  *)
(* it holds three backticks.                                               *)
C15_PayloadUndisturbed ==
    (/\ pc \notin {"clean", "parse"}
     /\ given.form = "json"
     /\ given.damage = "none"
     /\ NoBraces(given.pre)
     /\ NoBraces(given.post))
    => (Decoded /\ story = given.doc)

\* the entries of the log for team t and stage s
Entries(t, s) == {i \in 1..Len(log) : log[i].team = t /\ log[i].stage = s}

StageNo(s) == CHOOSE k \in 1..Len(Stages) : Stages[k] = s

(* C16: with both teams chosen, a stage of one run raising an exception of *)
(* any class ends that run only: main is never left through the            *)
(* exception, once the loop is over the pipeline has been started for      *)
(* both teams, and every run that came to its end is in the results.       *)
C16_FailureDoesNotAbort ==
    /\ status # "aborted"
    /\ (team_keys = <<"manutd", "lakers">> /\ status \in {"exit1", "summary"})
       => \A k \in 1..2 : Entries(team_keys[k], "fetch") # {}
    /\ \A i \in 1..Len(log) :
          (log[i].stage = "render" /\ log[i].result = "returned")
          => \E j \in 1..Len(results) : results[j].team = log[i].team
    /\ \A j \in 1..Len(results) :
          \E i \in 1..Len(log) : log[i] = [team |-> results[j].team,
                                           stage |-> "render", result |-> "returned"]

C16_Witness ==
    /\ status = "summary"
    /\ team_keys = <<"manutd", "lakers">>
    /\ \E i \in 1..Len(log) :
          /\ log[i].team = "manutd"
          /\ log[i].stage = "render"
          /\ log[i].result = "TypeError"
    /\ Len(results) = 1
    /\ results[1].team = "lakers"

\* the entry before entry i tells that stage s of the same run returned
After(i, s) ==
    /\ i > 1
    /\ log[i - 1] = [team |-> log[i].team, stage |-> s, result |-> "returned"]

(* C17: in a run the stages end in the order fetch, build, generate,       *)
(* validate, render; a stage is entered once at most, and only when the    *)
(* stage before it has returned in the same run; parse_and_save works      *)
(* during stage validate only; and the story render_html is called with    *)
(* is one that _validate_schema has accepted in that run.                  *)
C17_StagesInOrder ==
    /\ \A i \in 1..Len(log) :
          IF log[i].stage = "fetch"
          THEN i = 1 \/ ( /\ log[i - 1].team # log[i].team
                          /\ \/ log[i - 1].result # "returned"
                             \/ log[i - 1].stage = "render" )
          ELSE After(i, Stages[StageNo(log[i].stage) - 1])
    /\ \A t \in TeamKeys : \A k \in 1..Len(Stages) :
          Cardinality(Entries(t, Stages[k])) <= 1
    /\ stage \notin {"none", "fetch"}
       => /\ log # <<>>
          /\ log[Len(log)] = [team |-> cur_team,
                              stage |-> Stages[StageNo(stage) - 1],
                              result |-> "returned"]
          /\ Entries(cur_team, stage) = {}
    /\ pc \in {"clean", "parse", "validate", "write"} => stage = "validate"
    /\ (stage = "render" \/ handed # None)
       => /\ handed = story
          /\ pc = "done"
          /\ validate_schema(handed).err = NoError

C17_Witness ==
    /\ status = "summary"
    /\ Len(log) = 8
    /\ log[3].result = "APIError"
    /\ log[8] = [team |-> "lakers", stage |-> "render", result |-> "returned"]
    /\ handed # None

\* the blocks of a page
Blocks(page) == Get(page, k_slides).kids

(* C18: every slide the validator accepts is dispatched to the renderer of *)
(* its type, and that renderer reads only fields the validator requires:   *)
(* rendering a slide that passed the schema check gives a block of the     *)
(* slide's type, never the block for an unknown type and never a KeyError, *)
(* in every page written and for every slide handed to render_html.        *)
C18_RendererInLockstep ==
    /\ \A slide \in SlidePool :
          CheckSlide(slide, 1) = NoError
          => LET block == render_slide(slide, get_theme("lakers", v_win).out, v_win)
             IN /\ block.err = NoError
                /\ Get(block.out, k_class) = Get(slide, k_type)
    /\ \A t \in KnownTypes :
          \A j \in 2..Len(required_fields(t)) :
             render_slide(Keep(FullSlide(t), (1..Len(required_fields(t))) \ {j}),
                          get_theme("lakers", v_win).out, v_win).err
                = KeyError(required_fields(t)[j])
    /\ stage = "render"
       => \A i \in 1..Len(Get(handed, k_slides).kids) :
             LET slide == Get(handed, k_slides).kids[i]
                 block == render_slide(slide, get_theme(cur_team, v_win).out, v_win)
             IN /\ block.err = NoError
                /\ Get(block.out, k_class) = Get(slide, k_type)
    /\ \A f \in files :
          f.ext = "html"
          => \A i \in 1..Len(Blocks(f.content)) :
                Get(Blocks(f.content)[i], k_class).s \in KnownTypes
    /\ \A i \in 1..Len(log) :
          log[i].stage = "render" => log[i].result \notin {"KeyError", "AttributeError"}

C18_Witness ==
    /\ stage = "none"
    /\ \E f \in files :
          /\ f.ext = "html"
          /\ Len(Blocks(f.content)) = 3
          /\ Get(Blocks(f.content)[3], k_class) = Str(t_cta)
          /\ Get(Blocks(f.content)[1], k_result) = v_win

(* C19: once the schema check has accepted a story, writing it and         *)
(* rendering it leave it as it was decoded: the file written, the value    *)
(* parse_and_save returned and the value render_html was called with are   *)
(* that story, and the story file of a run is there before its page is.    *)
C19_StoryNotMutated ==
    /\ pc = "done"
       => LET decoded == parse_json(cleaned).out
          IN /\ story = decoded
             /\ \E f \in files :
                   f.team = cur_team /\ f.ext = "json" /\ f.content = decoded
             /\ handed # None => handed = decoded
             /\ stage = "render" => handed = decoded
    /\ \A f \in files :
          f.ext = "html" => \E g \in files : g.ext = "json" /\ g.team = f.team
    /\ \A j \in 1..Len(results) :
          \E g \in files : /\ g.ext = "json"
                           /\ g.team = results[j].team
                           /\ Get(g.content, k_match) = results[j].match
                           /\ Get(g.content, k_result) = results[j].result

C19_Witness ==
    /\ status = "summary"
    /\ pc = "done"
    /\ handed = story
    /\ Len(results) = 2
    /\ \E f, g \in files :
          /\ f.team = cur_team /\ f.ext = "json" /\ f.content = story
          /\ g.team = cur_team /\ g.ext = "html"
          /\ Get(g.content, k_team) = Get(story, k_team)

\* the files of the output directory that belong to team t
FilesOf(t) == {f \in files : f.team = t}

(* C21: a run in which cleaning, decoding or the schema check fails leaves *)
(* the output directory as it was: _write_json and render_html are not     *)
(* called in that run, and every story file there is holds a story the     *)
(* schema check accepted.                                                  *)
C21_NoFileForFailedValidation ==
    /\ \A f \in files :
          f.ext = "json" => validate_schema(f.content).err = NoError
    /\ (stage = "validate" /\ pc = "failed") => FilesOf(cur_team) = {}
    /\ \A i \in 1..Len(log) :
          (log[i].stage = "validate" /\ log[i].result # "returned")
          => /\ FilesOf(log[i].team) = {}
             /\ Entries(log[i].team, "render") = {}

C21_Witness ==
    /\ status = "summary"
    /\ team_keys = <<"manutd", "lakers">>
    /\ \E i \in 1..Len(log) :
          log[i] = [team |-> "manutd", stage |-> "validate", result |-> "ValueError"]
    /\ FilesOf("manutd") = {}
    /\ Cardinality(FilesOf("lakers")) = 2

(* C22: cleaning fails with NoJsonFound exactly when the fence-stripped    *)
(* text has no "{" or has no "}".  When it has both and the last "}"       *)
(* stands before the first "{", cleaning returns the empty text, and the   *)
(* call then fails with MalformedJson at the start of that text.           *)
C22_NoJsonFoundIffBraceLacking ==
    pc # "clean"
    => LET stripped == StripFences(raw)
           first == find(stripped, "{")
           last == rfind(stripped, "}")
       IN /\ (pc = "failed" /\ error.tag = "NoJsonFound")
             <=> (first = 0 \/ last = 0)
          /\ (first # 0 /\ last # 0 /\ last < first)
             => /\ cleaned = <<>>
                /\ error.tag # "NoJsonFound"
                /\ pc # "parse"
                   => /\ pc = "failed"
                      /\ error.tag = "MalformedJson"
                      /\ error.msg = "Expecting value"
                      /\ error.at = 0

C22_Witness ==
    /\ raw = <<"}", SP, "{">>
    /\ cleaned = <<>>
    /\ pc = "failed"
    /\ error.tag = "MalformedJson"

(* C23: the cleaned text is empty or starts with "{", so whatever is       *)
(* decoded is a mapping: the schema check is never applied to a list, a    *)
(* string, a number, a boolean or null, also when the raw text as a whole  *)
(* is such a value.                                                        *)
C23_DecodedIsMapping ==
    /\ (pc # "clean" /\ error.tag # "NoJsonFound")
       => (cleaned = <<>> \/ cleaned[1] = "{")
    /\ Decoded => story.k = "obj"
    /\ ~Decoded => story = None

C23_Witness ==
    /\ given.form = "value"
    /\ given.doc.k = "arr"
    /\ SchemaChecked
    /\ story = given.doc.kids[1]
    /\ story.k = "obj"

\* the slide is a mapping without the key type
Untyped(v) == v.k = "obj" /\ ~Has(v, k_type)

(* C24: a slide mapping without the key type, the first slide that is not  *)
(* well formed, is rejected with UnknownSlideType at its position, the     *)
(* type reported being None; and MissingSlideField never names the field   *)
(* type.                                                                   *)
C24_AbsentTypeIsUnknownType ==
    /\ (/\ SchemaChecked
        /\ HasTopLevelKeys(story)
        /\ Get(story, k_slides).k = "arr"
        /\ \E i \in 1..Len(Get(story, k_slides).kids) :
              /\ Untyped(Get(story, k_slides).kids[i])
              /\ \A j \in 1..(i - 1) : WellFormedSlide(Get(story, k_slides).kids[j]))
       => LET slides == Get(story, k_slides).kids
          IN /\ pc = "failed"
             /\ error.exc = "ValueError"
             /\ error.tag = "UnknownSlideType"
             /\ error.index = FirstOf({i \in 1..Len(slides) : Untyped(slides[i])})
             /\ error.value = None
    /\ error.tag = "MissingSlideField"
       => /\ error.name # k_type
          /\ Has(Get(story, k_slides).kids[error.index], k_type)

C24_Witness ==
    /\ pc = "failed"
    /\ error.tag = "UnknownSlideType"
    /\ error.index = 2
    /\ error.value = None
    /\ Untyped(Get(story, k_slides).kids[2])

\* the run for team t came to its end
RunSucceeded(t) ==
    \E i \in 1..Len(log) :
       log[i] = [team |-> t, stage |-> "render", result |-> "returned"]

\* the teams chosen whose run came to its end, in the order they were run
Succeeded == SelectSeq(team_keys, RunSucceeded)

(* C25: main ends with exit status 1 exactly when no run of a chosen team  *)
(* came to its end; otherwise it ends with the summary, whose entries are  *)
(* the teams whose run succeeded, each once, in the order they were run.   *)
C25_ExitStatusAndSummary ==
    status \in {"exit1", "summary"}
    => /\ Position = Len(team_keys)
       /\ status = "exit1" <=> Succeeded = <<>>
       /\ [j \in 1..Len(results) |-> results[j].team] = Succeeded
       /\ \A j, k \in 1..Len(results) : results[j].team = results[k].team => j = k
       /\ Len(results) = 2 => /\ results[1].team = "manutd"
                              /\ results[2].team = "lakers"

C25_Witness ==
    /\ status = "summary"
    /\ team_keys = <<"manutd", "lakers">>
    /\ Len(log) = 6
    /\ log[1] = [team |-> "manutd", stage |-> "fetch", result |-> "ConnectionError"]
    /\ Len(results) = 1
    /\ results[1].team = "lakers"

\* _extract_match_data has returned a record
Built == last_match.err = "none" /\ last_match.result # ""

\* the two names are the same but for the case of their letters
SameButCase(a, b) ==
    /\ Len(a) = Len(b)
    /\ \A i \in 1..Len(a) :
          \/ a[i] = b[i]
          \/ \E j \in 1..26 : {a[i], b[i]} = {UpperCase[j], LowerCase[j]}

\* the score is missing, null, a list, a mapping, or a string without a digit
NonNumeric(v) ==
    \/ v.k \in {"null", "arr", "obj"}
    \/ v.k = "str" /\ \A i \in 1..Len(v.s) : v.s[i] \notin Digits

(* C26: the record _extract_match_data builds has a result that is WIN,    *)
(* LOSS or DRAW, seen from the team: our_score is the home score exactly   *)
(* when the team's api_name is the home team's name but for case, the      *)
(* away score otherwise; the result is WIN when our_score is greater than  *)
(* opp_score, LOSS when it is less, DRAW when they are equal; and a score  *)
(* that is missing or not a number counts as 0.                            *)
C26_ResultFromOwnPerspective ==
    Built
    => LET home_name == GetOr(event, k_strHomeTeam, Str(<<>>))
           at_home == SameButCase(TEAM_CONFIG[cur_team].api_name, home_name.s)
       IN /\ last_match.result \in {"WIN", "LOSS", "DRAW"}
          /\ last_match.is_home <=> at_home
          /\ last_match.our_score =
                IF at_home THEN last_match.home_score ELSE last_match.away_score
          /\ last_match.opp_score =
                IF at_home THEN last_match.away_score ELSE last_match.home_score
          /\ last_match.result = "WIN"
                <=> last_match.our_score > last_match.opp_score
          /\ last_match.result = "LOSS"
                <=> last_match.our_score < last_match.opp_score
          /\ last_match.result = "DRAW"
                <=> last_match.our_score = last_match.opp_score
          /\ NonNumeric(Get(event, k_intHomeScore)) => last_match.home_score = 0
          /\ NonNumeric(Get(event, k_intAwayScore)) => last_match.away_score = 0
          /\ Get(event, k_intHomeScore) \in {Num(<<"2">>), Str(<<"2">>)}
                => last_match.home_score = 2
          /\ Get(event, k_intAwayScore) \in {Num(<<"1", "0">>), Str(<<"1", "0">>)}
                => last_match.away_score = 10

C26_Witness ==
    /\ Built
    /\ cur_team = "manutd"
    /\ Get(event, k_strHomeTeam) = Str(n_chelsea)
    /\ Get(event, k_strAwayTeam) = Str(n_manutd)
    /\ Get(event, k_intHomeScore) = Str(<<"9">>)
    /\ Get(event, k_intAwayScore) = Str(<<"1", "0">>)
    /\ ~last_match.is_home
    /\ last_match.our_score = 10
    /\ last_match.result = "WIN"

=============================================================================
